---------------------------- MODULE Spec2Model ----------------------------
(***************************************************************************)
(* The front end of the interpreter: the character-level lexer             *)
(* (src/lexer.rs) and the Pratt parser (src/parser.rs).                    *)
(*                                                                         *)
(* Source text is a sequence of one-character strings.  A token is a       *)
(* record [t, v]: its kind and the literal text it carries.  The parser's  *)
(* recursive descent is a family of RECURSIVE operators that thread the    *)
(* parser's cursor (lexer, curr_token, peek_token) exactly as the methods  *)
(* thread `&mut self`; the top-level loop of parse_program is taken one    *)
(* iteration per step.                                                     *)
(***************************************************************************)
EXTENDS Integers, Sequences, FiniteSets, TLC

VARIABLES input, pc, lexer, tokens, curr_token, peek_token, errors,
          statements, program, hung, rendered, reparsed, advances

vars == <<input, pc, lexer, tokens, curr_token, peek_token, errors,
          statements, program, hung, rendered, reparsed, advances>>

(***************************************************************************)
(* Bounds of the model.                                                    *)
(***************************************************************************)
\* longest raw character string drawn over Alphabet
MaxChars == 3
\* most statements in a drawn statement sequence
MaxStmts == 2
\* most tokens drawn between `fn(` and the end of the parameter list
MaxParamToks == 2
\* most direct calls of Lexer::next_token made by a client of the lexer
MaxTokens == 4
\* most elements in a drawn comma-separated list (parameters, arguments)
MaxList == 3

(***************************************************************************)
(* Characters.                                                             *)
(***************************************************************************)
Letters == {"a", "b", "c", "d", "e", "f", "i", "l", "n", "r", "s", "t", "u", "x", "y", "_"}

Digits == {"0", "1", "2", "3", "4", "5", "6", "7", "8", "9"}

Whitespace == {" ", "\t", "\n", "\r"}

\* fn is_letter (ASCII letters and underscore; the model draws from Letters)
is_letter(ch) == ch \in Letters

\* fn is_digit
is_digit(ch) == ch \in Digits

(***************************************************************************)
(* Tokens (crate::tokens).                                                 *)
(***************************************************************************)
Token_new(t, v) == [t |-> t, v |-> v]

\* Token::from(&str): the keyword table, consulted once per letter run
Token_from(v) ==
    CASE v = <<"f", "n">> -> Token_new("Function", v)
      [] v = <<"l", "e", "t">> -> Token_new("Let", v)
      [] v = <<"t", "r", "u", "e">> -> Token_new("True", v)
      [] v = <<"f", "a", "l", "s", "e">> -> Token_new("False", v)
      [] v = <<"i", "f">> -> Token_new("If", v)
      [] v = <<"e", "l", "s", "e">> -> Token_new("Else", v)
      [] v = <<"r", "e", "t", "u", "r", "n">> -> Token_new("Return", v)
      [] OTHER -> Token_new("Ident", v)

\* Token::default(), held by curr_token and peek_token until Parser::new loads them
Token_default == Token_new("Illegal", <<>>)

(***************************************************************************)
(* Lexer: the Chars iterator over the rest of the input and the current    *)
(* character.                                                              *)
(***************************************************************************)
NoLexer == [input |-> <<>>, ch |-> ""]

\* Lexer::new: `input_string.chars().next().unwrap()` panics on the empty string
Lexer_new_panics(input_string) == input_string = <<>>

Lexer_new(input_string) == [input |-> Tail(input_string), ch |-> Head(input_string)]

\* Lexer::read_char: at the end of the iterator the current character becomes '0'
read_char(l) ==
    IF l.input # <<>>
    THEN [input |-> Tail(l.input), ch |-> Head(l.input)]
    ELSE [l EXCEPT !.ch = "0"]

RECURSIVE eat_whitespace(_)
\* Lexer::eat_whitespace
eat_whitespace(l) ==
    IF l.ch = " " \/ l.ch = "\t" \/ l.ch = "\n" \/ l.ch = "\r"
    THEN eat_whitespace(read_char(l))
    ELSE l

\* the call `conditional(self.ch)` through the fn pointer handed to read_ident
call(conditional, ch) == IF conditional = "is_letter" THEN is_letter(ch) ELSE is_digit(ch)

RECURSIVE read_ident(_, _, _)
\* Lexer::read_ident: `while conditional(self.ch) { push; read_char }`.  An
\* iteration that leaves the lexer unchanged repeats for ever, since the exit
\* test reads nothing but the lexer: that is the end of the iterator with the
\* current character '0' under is_digit.  The result says so in its hung field.
read_ident(l, conditional, ident) ==
    IF ~call(conditional, l.ch)
    THEN [lexer |-> l, v |-> ident, hung |-> FALSE]
    ELSE IF read_char(l) = l
         THEN [lexer |-> l, v |-> ident, hung |-> TRUE]
         ELSE read_ident(read_char(l), conditional, Append(ident, l.ch))

SingleCharKind(ch) ==
    CASE ch = "=" -> "Assign"
      [] ch = "+" -> "Plus"
      [] ch = "-" -> "Minus"
      [] ch = "!" -> "Bang"
      [] ch = "*" -> "Asterisk"
      [] ch = "/" -> "Slash"
      [] ch = "<" -> "LessThan"
      [] ch = ">" -> "GreaterThan"
      [] ch = "," -> "Comma"
      [] ch = ";" -> "Semicolon"
      [] ch = "(" -> "LParen"
      [] ch = ")" -> "RParen"
      [] ch = "{" -> "LBrace"
      [] ch = "}" -> "RBrace"
      [] OTHER -> "Illegal"

SingleChars == {"=", "+", "-", "!", "*", "/", "<", ">", ",", ";", "(", ")", "{", "}"}

\* Lexer::next_token: the lexer after the call, the token returned, and whether
\* the call never returns
Lexer_next_token(l0) ==
    LET l == eat_whitespace(l0) IN
    IF l.ch \in SingleChars
    THEN [lexer |-> read_char(l), token |-> Token_new(SingleCharKind(l.ch), <<l.ch>>), hung |-> FALSE]
    ELSE IF l.ch = "0"
    THEN [lexer |-> read_char(l), token |-> Token_new("EOF", <<>>), hung |-> FALSE]
    ELSE IF is_letter(l.ch)
    THEN LET r == read_ident(l, "is_letter", <<>>)
         IN [lexer |-> r.lexer, token |-> Token_from(r.v), hung |-> r.hung]
    ELSE IF is_digit(l.ch)
    THEN LET r == read_ident(l, "is_digit", <<>>)
         IN [lexer |-> r.lexer, token |-> Token_new("Int", r.v), hung |-> r.hung]
    ELSE [lexer |-> read_char(l), token |-> Token_new("Illegal", <<l.ch>>), hung |-> FALSE]

(***************************************************************************)
(* AST nodes (crate::ast::Node), as the parser builds them.                *)
(***************************************************************************)
Some(n) == [some |-> TRUE, v |-> n]

None == [some |-> FALSE]

NoNode == [kind |-> "NoNode"]

Program(stmts) == [kind |-> "Program", statements |-> stmts]

Identifier(token) == [kind |-> "Identifier", value |-> token]

LetStatement(name, value) == [kind |-> "LetStatement", name |-> name, value |-> value]

ReturnStatement(value) == [kind |-> "ReturnStatement", value |-> value]

ExpressionStatement(expression) == [kind |-> "ExpressionStatement", expression |-> expression]

IntegerLiteral(value) == [kind |-> "IntegerLiteral", value |-> value]

PrefixExpression(operator, right) == [kind |-> "PrefixExpression", operator |-> operator, right |-> right]

InfixExpression(left, operator, right) ==
    [kind |-> "InfixExpression", left |-> left, operator |-> operator, right |-> right]

Boolean(value) == [kind |-> "Boolean", value |-> value]

IfExpression(condition, consequence, alternative) ==
    [kind |-> "IfExpression", condition |-> condition, consequence |-> consequence,
     alternative |-> alternative]

BlockStatement(stmts) == [kind |-> "BlockStatement", statements |-> stmts]

FunctionLiteral(parameters, body) == [kind |-> "FunctionLiteral", parameters |-> parameters, body |-> body]

CallExpression(function, arguments) ==
    [kind |-> "CallExpression", function |-> function, arguments |-> arguments]

(***************************************************************************)
(* Precedence: the derived Ord of the enum is the order of its variants.   *)
(***************************************************************************)
Lowest == 0

Equals == 1

LessGreater == 2

Sum == 3

Product == 4

Prefix == 5

Call == 6

(***************************************************************************)
(* The parser's cursor: p = [lexer, curr_token, peek_token, hung,          *)
(* advances].  hung names the loop that never ends ("none" while none has  *)
(* been entered); once set it stays, and every loop and every recursive    *)
(* method returns at once on it, so that the top of the call chain sees    *)
(* it.  advances counts the calls of Parser::next_token that have          *)
(* returned; it is an observation, no field of the parser.                 *)
(***************************************************************************)
InLexer == "Lexer::read_ident"

\* Then(v, F) is `let x = v; F(x)`: v is evaluated once and handed on
Then(v, F(_)) == CHOOSE y \in {F(x) : x \in {v}} : TRUE

InParameters == "Parser::parse_function_literal"

\* next_token with `self.curr_token = self.lexer.next_token()`: the token in
\* peek_token is dropped and two tokens are pulled
next_token_pulling_two(p) ==
    IF p.hung # "none" THEN p
    ELSE Then(Lexer_next_token(p.lexer), LAMBDA l1 :
             Then(Lexer_next_token(l1.lexer), LAMBDA l2 :
                 [lexer |-> l2.lexer,
                  curr_token |-> l1.token,
                  peek_token |-> l2.token,
                  hung |-> IF l1.hung \/ l2.hung THEN InLexer ELSE "none",
                  advances |-> p.advances + 1]))

\* Parser::next_token
next_token(p) ==
    IF p.hung # "none" THEN p
    ELSE LET lt == Lexer_next_token(p.lexer)
         IN [lexer |-> lt.lexer,
             curr_token |-> p.peek_token,
             peek_token |-> lt.token,
             hung |-> IF lt.hung THEN InLexer ELSE "none",
             advances |-> p.advances + 1]

\* the parser's fields are in q what they are in p
Unmoved(p, q) ==
    q.lexer = p.lexer /\ q.curr_token = p.curr_token /\ q.peek_token = p.peek_token /\ q.hung = p.hung

\* Parser::expect_peek, its boolean result
expect_peek_ok(p, token_type) == p.peek_token.t = token_type

\* Parser::expect_peek, its effect on the cursor
expect_peek(p, token_type) == IF p.peek_token.t = token_type THEN next_token(p) ELSE p

\* Parser::check_curr_precedence
check_curr_precedence(p) ==
    CASE p.curr_token.t \in {"Equal", "NotEqual"} -> Equals
      [] p.curr_token.t \in {"LessThan", "GreaterThan"} -> LessGreater
      [] p.curr_token.t \in {"Plus", "Minus"} -> Sum
      [] p.curr_token.t \in {"Slash", "Asterisk"} -> Product
      [] p.curr_token.t = "LParen" -> Call
      [] OTHER -> Lowest

\* Parser::check_peek_precedence
check_peek_precedence(p) ==
    CASE p.peek_token.t \in {"Equal", "NotEqual"} -> Equals
      [] p.peek_token.t \in {"LessThan", "GreaterThan"} -> LessGreater
      [] p.peek_token.t \in {"Plus", "Minus"} -> Sum
      [] p.peek_token.t \in {"Slash", "Asterisk"} -> Product
      [] p.peek_token.t = "LParen" -> Call
      [] OTHER -> Lowest

\* Parser::should_keep_parsing
should_keep_parsing(p) ==
    p.peek_token.t \in {"Plus", "Minus", "Slash", "Asterisk", "Equal", "NotEqual",
                        "LessThan", "GreaterThan", "LParen"}

\* Result<Node, ParserError> together with the cursor the call leaves behind
Ok(p, node) == [p |-> p, ok |-> TRUE, node |-> node, err |-> "None"]

Err(p, e) == [p |-> p, ok |-> FALSE, node |-> NoNode, err |-> e]

(***************************************************************************)
(* str::parse::<i64>() on a run of digits: the value in canonical decimal  *)
(* (no leading zeros), or failure when it exceeds i64::MAX.  The value is  *)
(* kept as its digit sequence, which has no width of its own.              *)
(***************************************************************************)
DigitValue(ch) ==
    CASE ch = "0" -> 0 [] ch = "1" -> 1 [] ch = "2" -> 2 [] ch = "3" -> 3 [] ch = "4" -> 4
      [] ch = "5" -> 5 [] ch = "6" -> 6 [] ch = "7" -> 7 [] ch = "8" -> 8 [] ch = "9" -> 9

I64MaxDigits == <<9, 2, 2, 3, 3, 7, 2, 0, 3, 6, 8, 5, 4, 7, 7, 5, 8, 0, 7>>

RECURSIVE StripZeros(_)
StripZeros(ds) == IF Len(ds) > 1 /\ Head(ds) = 0 THEN StripZeros(Tail(ds)) ELSE ds

RECURSIVE DigitsLeq(_, _)
\* ds <= es for digit sequences of one length
DigitsLeq(ds, es) ==
    IF ds = <<>> THEN TRUE
    ELSE IF Head(ds) # Head(es) THEN Head(ds) < Head(es)
    ELSE DigitsLeq(Tail(ds), Tail(es))

ParseI64(v) ==
    LET ds == StripZeros([i \in 1..Len(v) |-> DigitValue(v[i])])
        fits == \/ Len(ds) < Len(I64MaxDigits)
                \/ Len(ds) = Len(I64MaxDigits) /\ DigitsLeq(ds, I64MaxDigits)
    IN IF v = <<>> THEN [ok |-> FALSE, value |-> <<>>]
       ELSE [ok |-> fits, value |-> IF fits THEN ds ELSE <<>>]

(***************************************************************************)
(* The recursive descent.  Every operator takes the cursor and returns     *)
(* Ok(p, node) or Err(p, e) with the cursor as the method leaves it.       *)
(***************************************************************************)

RECURSIVE parse_statement(_)
RECURSIVE parse_expression(_, _)
RECURSIVE parse_expression_loop(_, _, _)
RECURSIVE parse_infix_expression(_, _)
RECURSIVE parse_block_statement_loop(_, _)
RECURSIVE parse_call_expression(_, _, _)

\* parse_integer_literal that saturates at i64::MAX where the parse fails
parse_integer_literal_saturating(p) ==
    Then(ParseI64(p.curr_token.v), LAMBDA r :
        IF r.ok THEN Ok(p, IntegerLiteral(r.value)) ELSE Ok(p, IntegerLiteral(I64MaxDigits)))

\* Parser::parse_integer_literal
parse_integer_literal(p) ==
    Then(ParseI64(p.curr_token.v), LAMBDA r :
        IF r.ok THEN Ok(p, IntegerLiteral(r.value)) ELSE Err(p, "IntegerParsingFailed"))

\* parse_boolean_expression that takes `true` alone for a boolean and fails on
\* every other token with BooleanParsingFailed
parse_boolean_expression_failing(p) ==
    IF p.curr_token = Token_new("True", <<"t", "r", "u", "e">>)
    THEN Ok(p, Boolean(TRUE))
    ELSE Err(p, "BooleanParsingFailed")

\* Parser::parse_boolean_expression
parse_boolean_expression(p) ==
    Ok(p, Boolean(p.curr_token = Token_new("True", <<"t", "r", "u", "e">>)))

\* Parser::parse_prefix_expression
parse_prefix_expression(p) ==
    Then(parse_expression(next_token(p), Prefix), LAMBDA r :
        IF r.ok THEN Ok(r.p, PrefixExpression(p.curr_token.v, r.node)) ELSE r)

\* parse_grouped_expression with `self.peek_token.t != TokenType::RParen` in the
\* place of `!self.expect_peek(TokenType::RParen)`: the `)` is seen, not consumed
parse_grouped_expression_peeking(p) ==
    Then(parse_expression(next_token(p), Lowest), LAMBDA r :
        IF ~r.ok THEN r
        ELSE IF ~expect_peek_ok(r.p, "RParen") THEN Err(r.p, "GroupExpressionParsingFailed")
        ELSE Ok(r.p, r.node))

\* Parser::parse_grouped_expression
parse_grouped_expression(p) ==
    Then(parse_expression(next_token(p), Lowest), LAMBDA r :
        IF ~r.ok THEN r
        ELSE IF ~expect_peek_ok(r.p, "RParen") THEN Err(r.p, "GroupExpressionParsingFailed")
        ELSE Ok(expect_peek(r.p, "RParen"), r.node))

\* parse_block_statement_loop that demands the `}`: at end of input the block fails
parse_block_statement_loop_closing(p, stmts) ==
    IF p.hung # "none" THEN Ok(p, BlockStatement(stmts))
    ELSE IF p.curr_token.t = "EOF" THEN Err(p, "TokenUnrecognized")
    ELSE IF p.curr_token.t # "RBrace"
    THEN Then(parse_statement(p), LAMBDA r :
             IF ~r.ok THEN r
             ELSE Then(next_token(r.p), LAMBDA p1 :
                      parse_block_statement_loop(p1, Append(stmts, r.node))))
    ELSE Ok(p, BlockStatement(stmts))

\* Parser::parse_block_statement, its while loop
parse_block_statement_loop(p, stmts) ==
    IF p.hung # "none" THEN Ok(p, BlockStatement(stmts))
    ELSE IF p.curr_token.t # "RBrace" /\ p.curr_token.t # "EOF"
    THEN Then(parse_statement(p), LAMBDA r :
             IF ~r.ok THEN r
             ELSE Then(next_token(r.p), LAMBDA p1 :
                      parse_block_statement_loop(p1, Append(stmts, r.node))))
    ELSE Ok(p, BlockStatement(stmts))

\* Parser::parse_block_statement
parse_block_statement(p) ==
    Then(next_token(p), LAMBDA p1 : parse_block_statement_loop(p1, <<>>))

\* Parser::parse_if_expression, from the `else` on
parse_if_alternative(p, condition, consequence) ==
    Then(next_token(p), LAMBDA p1 :
        IF ~expect_peek_ok(p1, "LBrace") THEN Err(p1, "IncorrectIfStatement")
        ELSE Then(parse_block_statement(expect_peek(p1, "LBrace")), LAMBDA alternative :
                 IF ~alternative.ok THEN alternative
                 ELSE Ok(alternative.p,
                         IfExpression(condition, consequence, Some(alternative.node)))))

\* Parser::parse_if_expression
parse_if_expression(p) ==
    Then(parse_expression(next_token(p), Lowest), LAMBDA condition :
        IF ~condition.ok THEN condition
        ELSE IF ~expect_peek_ok(condition.p, "LBrace")
        THEN Err(condition.p, "IncorrectIfStatement")
        ELSE Then(parse_block_statement(expect_peek(condition.p, "LBrace")), LAMBDA consequence :
                 IF ~consequence.ok THEN consequence
                 ELSE IF consequence.p.peek_token.t = "Else"
                 THEN parse_if_alternative(consequence.p, condition.node, consequence.node)
                 ELSE Ok(consequence.p, IfExpression(condition.node, consequence.node, None))))

RECURSIVE parse_function_parameters(_, _)
\* parse_function_parameters without `if self.curr_token.t == TokenType::Comma
\* { self.next_token(); }`: the commas are pushed as parameters
parse_function_parameters_keeping_commas(p, parameters) ==
    IF p.hung # "none" THEN [p |-> p, parameters |-> parameters]
    ELSE IF p.curr_token.t # "RParen"
    THEN Then(next_token(p), LAMBDA p2 :
             IF Unmoved(p, p2)
             THEN [p |-> [p EXCEPT !.hung = InParameters], parameters |-> parameters]
             ELSE parse_function_parameters(p2, Append(parameters, Identifier(p.curr_token))))
    ELSE [p |-> p, parameters |-> parameters]

\* Parser::parse_function_literal, its while loop over the parameter list.  The
\* exit test reads curr_token alone, so an iteration that leaves the parser as
\* it found it (end of input: curr_token and peek_token both end-of-input, the
\* lexer at its end) repeats for ever, pushing one parameter each time.
parse_function_parameters(p, parameters) ==
    IF p.hung # "none" THEN [p |-> p, parameters |-> parameters]
    ELSE IF p.curr_token.t # "RParen"
    THEN Then(IF p.curr_token.t = "Comma" THEN next_token(p) ELSE p, LAMBDA p1 :
             Then(next_token(p1), LAMBDA p2 :
                 IF Unmoved(p, p2)
                 THEN [p |-> [p EXCEPT !.hung = InParameters], parameters |-> parameters]
                 ELSE parse_function_parameters(p2, Append(parameters, Identifier(p1.curr_token)))))
    ELSE [p |-> p, parameters |-> parameters]

\* Parser::parse_function_literal
parse_function_literal(p) ==
    IF ~expect_peek_ok(p, "LParen") THEN Err(p, "IncorrectFunctionDeclaration")
    ELSE Then(next_token(expect_peek(p, "LParen")), LAMBDA p1 :
             Then(parse_function_parameters(p1, <<>>), LAMBDA params :
                 Then(next_token(params.p), LAMBDA p2 :
                     Then(parse_block_statement(p2), LAMBDA body :
                         IF ~body.ok THEN body
                         ELSE Ok(body.p, FunctionLiteral(params.parameters, body.node))))))

\* parse_call_expression that validates the commas: none before the first
\* argument, and `,` or `)` after every argument
parse_call_expression_validating(p, function, arguments) ==
    IF p.hung # "none" THEN Ok(p, CallExpression(function, arguments))
    ELSE IF p.curr_token.t = "RParen" THEN Ok(p, CallExpression(function, arguments))
    ELSE IF p.curr_token.t = "Comma" THEN Err(p, "TokenUnrecognized")
    ELSE Then(parse_expression(p, Lowest), LAMBDA argument :
             IF ~argument.ok THEN argument
             ELSE Then(next_token(argument.p), LAMBDA p2 :
                      IF p2.curr_token.t = "Comma"
                      THEN parse_call_expression(next_token(p2), function,
                                                 Append(arguments, argument.node))
                      ELSE IF p2.curr_token.t = "RParen"
                      THEN parse_call_expression(p2, function, Append(arguments, argument.node))
                      ELSE Err(p2, "TokenUnrecognized")))

\* parse_call_expression with `self.parse_expression(Precedence::Prefix)`: an
\* argument ends at its first binary operator
parse_call_expression_at_prefix(p, function, arguments) ==
    IF p.hung # "none" THEN Ok(p, CallExpression(function, arguments))
    ELSE IF p.curr_token.t # "RParen"
    THEN Then(IF p.curr_token.t = "Comma" THEN next_token(p) ELSE p, LAMBDA p1 :
             Then(parse_expression(p1, Prefix), LAMBDA argument :
                 IF ~argument.ok THEN argument
                 ELSE Then(next_token(argument.p), LAMBDA p2 :
                          parse_call_expression(p2, function, Append(arguments, argument.node)))))
    ELSE Ok(p, CallExpression(function, arguments))

\* Parser::parse_call_expression
parse_call_expression(p, function, arguments) ==
    IF p.hung # "none" THEN Ok(p, CallExpression(function, arguments))
    ELSE IF p.curr_token.t # "RParen"
    THEN Then(IF p.curr_token.t = "Comma" THEN next_token(p) ELSE p, LAMBDA p1 :
             Then(parse_expression(p1, Lowest), LAMBDA argument :
                 IF ~argument.ok THEN argument
                 ELSE Then(next_token(argument.p), LAMBDA p2 :
                          parse_call_expression(p2, function, Append(arguments, argument.node)))))
    ELSE Ok(p, CallExpression(function, arguments))

\* Parser::parse_infix_expression
parse_infix_expression(p, left) ==
    IF p.curr_token.t = "LParen"
    THEN Then(next_token(p), LAMBDA p1 : parse_call_expression(p1, left, <<>>))
    ELSE Then(next_token(p), LAMBDA p1 :
             Then(parse_expression(p1, check_curr_precedence(p)), LAMBDA r :
                 IF r.ok THEN Ok(r.p, InfixExpression(left, p.curr_token.v, r.node)) ELSE r))

\* Parser::parse_expression, its while loop
parse_expression_loop(p, precedence, left_exp) ==
    IF p.hung # "none" THEN Ok(p, left_exp)
    ELSE IF p.peek_token.t # "Semicolon" /\ precedence < check_peek_precedence(p)
    THEN IF ~should_keep_parsing(p) THEN Ok(p, left_exp)
         ELSE Then(next_token(p), LAMBDA p1 :
                  Then(parse_infix_expression(p1, left_exp), LAMBDA r :
                      IF r.ok THEN parse_expression_loop(r.p, precedence, r.node) ELSE r))
    ELSE Ok(p, left_exp)

\* Parser::parse_expression, the prefix position
parse_prefix_position(p) ==
    CASE p.curr_token.t = "Ident" -> Ok(p, Identifier(p.curr_token))
      [] p.curr_token.t = "Int" -> parse_integer_literal(p)
      [] p.curr_token.t \in {"Minus", "Bang"} -> parse_prefix_expression(p)
      [] p.curr_token.t \in {"True", "False"} -> parse_boolean_expression(p)
      [] p.curr_token.t = "LParen" -> parse_grouped_expression(p)
      [] p.curr_token.t = "If" -> parse_if_expression(p)
      [] p.curr_token.t = "Function" -> parse_function_literal(p)
      [] OTHER -> Err(p, "TokenUnrecognized")

\* Parser::parse_expression
parse_expression(p, precedence) ==
    IF p.hung # "none" THEN Err(p, "TokenUnrecognized")
    ELSE Then(parse_prefix_position(p), LAMBDA left_exp :
             IF ~left_exp.ok THEN left_exp
             ELSE parse_expression_loop(left_exp.p, precedence, left_exp.node))

\* the optional trailing `;` of a statement
skip_semicolon(p) == IF p.peek_token.t = "Semicolon" THEN next_token(p) ELSE p

\* parse_let_statement without `if !self.expect_peek(TokenType::Assign) { return
\* Err(..) }`: the token after the name is skipped, whatever it is
parse_let_statement_unchecked(p) ==
    IF ~expect_peek_ok(p, "Ident") THEN Err(p, "IdentExpected")
    ELSE Then(expect_peek(p, "Ident"), LAMBDA p1 :
             Then(next_token(expect_peek(p1, "Assign")), LAMBDA p2 :
                 Then(parse_expression(p2, Lowest), LAMBDA value :
                     IF ~value.ok THEN value
                     ELSE Ok(skip_semicolon(value.p),
                             LetStatement(Identifier(p1.curr_token), Some(value.node))))))

\* Parser::parse_let_statement
parse_let_statement(p) ==
    IF ~expect_peek_ok(p, "Ident") THEN Err(p, "IdentExpected")
    ELSE Then(expect_peek(p, "Ident"), LAMBDA p1 :
             IF ~expect_peek_ok(p1, "Assign") THEN Err(p1, "AssignExpected")
             ELSE Then(next_token(expect_peek(p1, "Assign")), LAMBDA p2 :
                      Then(parse_expression(p2, Lowest), LAMBDA value :
                          IF ~value.ok THEN value
                          ELSE Ok(skip_semicolon(value.p),
                                  LetStatement(Identifier(p1.curr_token), Some(value.node))))))

\* parse_return_statement that accepts a bare `return;` with `value: None`
parse_return_statement_bare(p) ==
    Then(next_token(p), LAMBDA p1 :
        IF p1.curr_token.t = "Semicolon" THEN Ok(p1, ReturnStatement(None))
        ELSE Then(parse_expression(p1, Lowest), LAMBDA value :
                 IF ~value.ok THEN value
                 ELSE Ok(skip_semicolon(value.p), ReturnStatement(Some(value.node)))))

\* Parser::parse_return_statement
parse_return_statement(p) ==
    Then(next_token(p), LAMBDA p1 :
        Then(parse_expression(p1, Lowest), LAMBDA value :
            IF ~value.ok THEN value
            ELSE Ok(skip_semicolon(value.p), ReturnStatement(Some(value.node)))))

\* Parser::parse_expression_statement
parse_expression_statement(p) ==
    Then(parse_expression(p, Lowest), LAMBDA r :
        IF ~r.ok THEN r
        ELSE Ok(skip_semicolon(r.p), ExpressionStatement(Some(r.node))))

\* Parser::parse_statement
parse_statement(p) ==
    CASE p.curr_token.t = "Let" -> parse_let_statement(p)
      [] p.curr_token.t = "Return" -> parse_return_statement(p)
      [] OTHER -> parse_expression_statement(p)

(***************************************************************************)
(* Source texts.  A word is the character sequence of one lexeme.          *)
(***************************************************************************)
RECURSIVE Flatten(_)
\* the words one after the other, nothing between them
Flatten(ws) == IF ws = <<>> THEN <<>> ELSE Head(ws) \o Flatten(Tail(ws))

RECURSIVE Spaced(_)
\* the words separated by one space
Spaced(ws) ==
    IF ws = <<>> THEN <<>>
    ELSE IF Len(ws) = 1 THEN Head(ws)
    ELSE Head(ws) \o <<" ">> \o Spaced(Tail(ws))

SeqsUpTo(S, n) == UNION {[1..k -> S] : k \in 0..n}

kw_fn == <<"f", "n">>

kw_let == <<"l", "e", "t">>

kw_return == <<"r", "e", "t", "u", "r", "n">>

kw_if == <<"i", "f">>

kw_else == <<"e", "l", "s", "e">>

kw_true == <<"t", "r", "u", "e">>

kw_false == <<"f", "a", "l", "s", "e">>

\* the binary operators of the language, as written
InfixOps == {<<"+">>, <<"-">>, <<"*">>, <<"/">>, <<"<">>, <<">">>, <<"=", "=">>, <<"!", "=">>}

PrefixOps == {<<"-">>, <<"!">>}

\* the precedence level of a binary operator (spec section 4.2)
Level(op) ==
    CASE op \in {<<"=", "=">>, <<"!", "=">>} -> Equals
      [] op \in {<<"<">>, <<">">>} -> LessGreater
      [] op \in {<<"+">>, <<"-">>} -> Sum
      [] op \in {<<"*">>, <<"/">>} -> Product

\* operands: an identifier, an integer, a boolean
OperandWords == {<<"a">>, <<"b">>, <<"5">>, kw_true}

\* the node an operand word parses to
OperandNode(w) ==
    CASE w = kw_true -> Boolean(TRUE)
      [] w = kw_false -> Boolean(FALSE)
      [] w[1] \in Digits -> IntegerLiteral([i \in 1..Len(w) |-> DigitValue(w[i])])
      [] OTHER -> Identifier(Token_new("Ident", w))

\* an optional statement terminator
Terminators == {<<>>, <<";">>}

\* every string of at most MaxChars characters over Alphabet
Alphabet == {"a", "n", "f", "0", "1", " ", "=", "!", "(", ")", ";", "@"}

RawInputs == SeqsUpTo(Alphabet, MaxChars)

\* every string of at most MaxChars whitespace characters
WhitespaceInputs == SeqsUpTo(Whitespace, MaxChars)

\* `x op y` and `x op y;`
BinaryInputs ==
    {Spaced(<<x, op, y>>) \o t : x \in OperandWords, y \in OperandWords, op \in InfixOps, t \in Terminators}

\* `a op1 b op2 c` and `a op1 b op2 c;`
ChainInputs ==
    {Spaced(<<<<"a">>, op1, <<"b">>, op2, <<"c">>>>) \o t : op1 \in InfixOps, op2 \in InfixOps, t \in Terminators}

\* `-a op b;` and `!a op b;`
PrefixInputs ==
    {pre \o Spaced(<<<<"a">>, op, <<"b">>>>) \o <<";">> : pre \in PrefixOps, op \in InfixOps}

\* `a op1 f(b op2 c) op3 d;`
CallInputs ==
    {Spaced(<<<<"a">>, op1, <<"f", "(">> \o Spaced(<<<<"b">>, op2, <<"c">>>>) \o <<")">>, op3, <<"d">>>>) \o <<";">> :
        op1 \in InfixOps, op2 \in InfixOps, op3 \in InfixOps}

\* `-f(a);` and `!f(a);`
PrefixCallInputs == {pre \o <<"f", "(", "a", ")", ";">> : pre \in PrefixOps}

\* what may stand between `fn(` and the end of the parameter list
ParamWords == {<<"x">>, <<"y">>, <<",">>, <<"1">>, <<"+">>, <<"{">>}

\* how the parameter list ends: closed, or not
ParamCloses == {<<")">>, <<>>}

\* what follows the parameter list
FnBodies ==
    {<<>>, <<" ", "{", "}">>, <<" ", "{", " ", "x", " ", "}", ";">>, <<" ", "5", " ", "}">>,
     <<" ", "x", " ", "}">>, <<" ", ";">>, <<" ", "}", " ", "y", ";">>}

\* `fn(` words close body
FnInputs ==
    {kw_fn \o <<"(">> \o Spaced(ws) \o close \o body :
        ws \in SeqsUpTo(ParamWords, MaxParamToks), close \in ParamCloses, body \in FnBodies}

\* statements, well-formed and not
StmtTexts ==
    {<<"a", ";">>, <<"b">>, <<"@", ";">>, <<"5", ";">>, <<"0", ";">>,
     Spaced(<<kw_let, <<"x">>, <<"=">>, <<"5", ";">>>>),
     Spaced(<<kw_let, <<"x">>, <<"=">>, <<"0", ";">>>>),
     Spaced(<<kw_let, <<"x">>, <<"5", ";">>>>),
     Spaced(<<kw_let, <<"5", ";">>>>),
     Spaced(<<kw_return, <<"a", ";">>>>),
     kw_return \o <<";">>,
     Spaced(<<kw_if, <<"a">>, <<"{">>, <<"b">>, <<"}">>>>),
     Spaced(<<kw_if, <<"a">>, <<"b", ";">>>>),
     <<"(", "a", ";">>,
     kw_fn \o <<"(", "x">>}

\* at most MaxStmts statements, one space between them
StmtInputs == {Spaced(ss) : ss \in SeqsUpTo(StmtTexts, MaxStmts)}

RECURSIVE CommaSep(_)
\* the words separated by a comma and a space
CommaSep(ws) ==
    IF ws = <<>> THEN <<>>
    ELSE IF Len(ws) = 1 THEN Head(ws)
    ELSE Head(ws) \o <<",", " ">> \o CommaSep(Tail(ws))

\* names of parameters
IdentWords == {<<"x">>, <<"y">>}

\* `{}` and `{ x + y; }`
BlockTexts == {<<"{", "}">>, <<"{", " ", "x", " ", "+", " ", "y", ";", " ", "}">>}

\* `fn(` identifiers `) ` block, with and without `;`
ParamListInputs ==
    {kw_fn \o <<"(">> \o CommaSep(ps) \o <<")", " ">> \o body \o t :
        ps \in SeqsUpTo(IdentWords, MaxList), body \in BlockTexts, t \in Terminators}

\* arguments of a call
ArgTexts ==
    {<<"1">>, Spaced(<<<<"2">>, <<"*">>, <<"3">>>>), Spaced(<<<<"4">>, <<"+">>, <<"5">>>>),
     <<"f", "(", "-", "b", ")">>}

\* `add(` arguments `)`, with and without `;`
ArgListInputs ==
    {<<"a", "d", "d", "(">> \o CommaSep(as) \o <<")">> \o t :
        as \in SeqsUpTo(ArgTexts, MaxList), t \in Terminators}

\* `(a op1 b) op2 c` and `a op2 (b op1 c)`, with and without `;`
GroupInputs ==
    {<<"(">> \o Spaced(<<<<"a">>, op1, <<"b">>>>) \o <<")", " ">> \o Spaced(<<op2, <<"c">>>>) \o t :
        op1 \in InfixOps, op2 \in InfixOps, t \in Terminators}
    \cup
    {Spaced(<<<<"a">>, op2>>) \o <<" ", "(">> \o Spaced(<<<<"b">>, op1, <<"c">>>>) \o <<")">> \o t :
        op1 \in InfixOps, op2 \in InfixOps, t \in Terminators}

\* the decimal digit of a value 0..9
DigitChar(d) == CHOOSE ch \in Digits : DigitValue(ch) = d

\* a digit sequence as text
DigitText(ds) == [i \in 1..Len(ds) |-> DigitChar(ds[i])]

\* i64::MAX, i64::MAX + 1, ten times i64::MAX, and 2^64 + 5
I64MaxText == DigitText(I64MaxDigits)

AboveI64MaxText == DigitText([I64MaxDigits EXCEPT ![Len(I64MaxDigits)] = 8])

TenfoldText == I64MaxText \o <<"0">>

WrapsToFiveText == DigitText(<<1, 8, 4, 4, 6, 7, 4, 4, 0, 7, 3, 7, 0, 9, 5, 5, 1, 6, 2, 1>>)

\* integers that fit a signed 64-bit integer, and integers that do not
InRangeTexts == {<<"5">>, <<"0">>, <<"1", "0">>, <<"0", "0", "7">>, I64MaxText}

OutOfRangeTexts == {AboveI64MaxText, TenfoldText, WrapsToFiveText}

\* `let x 5;`: a let statement without its `=`
LetNoAssignInputs ==
    {Spaced(<<kw_let, id, n \o <<";">>>>) : id \in IdentWords, n \in InRangeTexts \cup OutOfRangeTexts}

\* what a group holds, and what may stand where its `)` should
GroupInners == {<<"a">>, Spaced(<<<<"1">>, <<"+">>, <<"2">>>>)}

GroupFollowers == {<<>>, <<";">>, <<" ", "b", ";">>}

\* `(a`, `(1 + 2;`, `(a b;` ...: a group that is not closed
OpenGroupInputs == {<<"(">> \o e \o f : e \in GroupInners, f \in GroupFollowers}

\* conditions, and what may stand where the `{` of a branch should
IfConditions == {<<"a">>, Spaced(<<<<"1">>, <<"<">>, <<"2">>>>)}

IfFollowers == {<<>>, <<" ", "b", ";">>, <<" ", "5">>}

\* `if a b;`, `if 1 < 2`, `if a { b } else b;` ...: a branch without its `{`
OpenIfInputs ==
    {kw_if \o <<" ">> \o c \o f : c \in IfConditions, f \in IfFollowers}
    \cup
    {Spaced(<<kw_if, c, <<"{">>, <<"b">>, <<"}">>, kw_else>>) \o f : c \in IfConditions, f \in IfFollowers}

\* statements whose expression is missing: `return;`, `let x = ;`, `;`, and
\* `fn() { return; }`, `if a { let x = ; }`
BareInputs ==
    {kw_return \o <<";">>,
     Spaced(<<kw_let, <<"x">>, <<"=">>, <<";">>>>),
     <<";">>,
     Spaced(<<kw_fn \o <<"(", ")">>, <<"{">>, kw_return \o <<";">>, <<"}">>>>),
     Spaced(<<kw_if, <<"a">>, <<"{">>, kw_let, <<"x">>, <<"=">>, <<";">>, <<"}">>>>)}

\* `n;`, `-n;` and `a + n;` for integers that fit and integers that do not
IntegerInputs ==
    {pre \o n \o <<";">> :
        pre \in {<<>>, <<"-">>, <<"a", " ", "+", " ">>}, n \in InRangeTexts \cup OutOfRangeTexts}

\* expressions as their words: an identifier, literals, a prefix and an infix
\* expression, a group, calls, if-expressions and function literals
ClosedExprs ==
    {<<<<"a">>>>, <<<<"5">>>>, <<kw_true>>, <<<<"-">>, <<"a">>>>, <<<<"a">>, <<"+">>, <<"b">>>>,
     <<<<"(">>, <<"a">>, <<"+">>, <<"b">>, <<")">>>>,
     <<<<"f">>, <<"(">>, <<")">>>>,
     <<<<"f">>, <<"(">>, <<"a">>, <<",">>, <<"b">>, <<")">>>>,
     <<kw_if, <<"a">>, <<"{">>, <<"b">>, <<"}">>>>,
     <<kw_if, <<"a">>, <<"{">>, <<"b">>, <<";">>, <<"}">>>>,
     <<kw_if, <<"a">>, <<"{">>, <<"b">>, <<"}">>, kw_else, <<"{">>, <<"c">>, <<"}">>>>,
     <<kw_fn, <<"(">>, <<"x">>, <<")">>, <<"{">>, <<"y">>, <<"}">>>>,
     <<kw_fn, <<"(">>, <<")">>, <<"{">>, <<"}">>>>}

\* what may follow an expression without continuing it
ExprFollowers == {<<>>, <<<<";">>>>, <<<<"y">>, <<";">>>>, <<<<")">>>>, <<<<"}">>>>}

\* if-expressions and function literals whose last block has no `}`
OpenExprs ==
    {<<kw_if, <<"a">>, <<"{">>>>,
     <<kw_if, <<"a">>, <<"{">>, <<"b">>>>,
     <<kw_if, <<"a">>, <<"{">>, <<"b">>, <<";">>>>,
     <<kw_if, <<"a">>, <<"{">>, <<"b">>, <<"}">>, kw_else, <<"{">>, <<"c">>>>,
     <<kw_fn, <<"(">>, <<"x">>, <<")">>, <<"{">>, <<"y">>>>}

\* what ends such a block: the end of the input, or a token that begins with `0`
OpenFollowers == {<<>>, <<<<"0">>, <<"}">>>>}

\* an expression e, what follows it, whether its last block is open, and the text
ExprEndCases ==
    {[e |-> e, f |-> f, open |-> FALSE, text |-> Spaced(e \o f)] : e \in ClosedExprs, f \in ExprFollowers}
    \cup
    {[e |-> e, f |-> f, open |-> TRUE, text |-> Spaced(e \o f)] : e \in OpenExprs, f \in OpenFollowers}

ExprEndInputs == {c.text : c \in ExprEndCases}

\* statements of a block, as their words
BlockStmtWords ==
    {<<<<"b">>>>, <<<<"b">>, <<";">>>>, <<kw_let, <<"x">>, <<"=">>, <<"y">>, <<";">>>>,
     <<kw_return, <<"b">>, <<";">>>>}

\* the node a statement of BlockStmtWords parses to
BlockStmtNode(ws) ==
    CASE Head(ws) = kw_let ->
            LetStatement(Identifier(Token_new("Ident", <<"x">>)),
                         Some(Identifier(Token_new("Ident", <<"y">>))))
      [] Head(ws) = kw_return -> ReturnStatement(Some(Identifier(Token_new("Ident", <<"b">>))))
      [] OTHER -> ExpressionStatement(Some(Identifier(Token_new("Ident", <<"b">>))))

\* what stands before the last block: `if a {`, `if a { c } else {`, `fn ( x ) {`,
\* and `if a { if y {`, where two blocks are open
BlockHeads ==
    {<<kw_if, <<"a">>, <<"{">>>>,
     <<kw_if, <<"a">>, <<"{">>, <<"c">>, <<"}">>, kw_else, <<"{">>>>,
     <<kw_fn, <<"(">>, <<"x">>, <<")">>, <<"{">>>>,
     <<kw_if, <<"a">>, <<"{">>, kw_if, <<"y">>, <<"{">>>>}

\* the expression a head makes of its last block
BlockOwner(head, block) ==
    CASE head = <<kw_if, <<"a">>, <<"{">>>> ->
            IfExpression(Identifier(Token_new("Ident", <<"a">>)), block, None)
      [] head = <<kw_fn, <<"(">>, <<"x">>, <<")">>, <<"{">>>> ->
            FunctionLiteral(<<Identifier(Token_new("Ident", <<"x">>))>>, block)
      [] head = <<kw_if, <<"a">>, <<"{">>, kw_if, <<"y">>, <<"{">>>> ->
            IfExpression(Identifier(Token_new("Ident", <<"a">>)),
                         BlockStatement(<<ExpressionStatement(Some(
                             IfExpression(Identifier(Token_new("Ident", <<"y">>)), block, None)))>>),
                         None)
      [] OTHER ->
            IfExpression(Identifier(Token_new("Ident", <<"a">>)),
                         BlockStatement(<<ExpressionStatement(Some(
                             Identifier(Token_new("Ident", <<"c">>))))>>),
                         Some(block))

\* how the block ends: at the end of the input, at its `}`, or at the first of two `}`
BlockCloses == {<<>>, <<<<"}">>>>, <<<<"}">>, <<"}">>>>}

\* a head, the statements of its last block, the close, and the text
BlockEndCases ==
    {[head |-> h, body |-> b, close |-> c, text |-> Spaced(h \o Flatten(b) \o c)] :
        h \in BlockHeads, b \in SeqsUpTo(BlockStmtWords, MaxStmts), c \in BlockCloses}

BlockEndInputs == {c.text : c \in BlockEndCases}

\* arguments of a call whose commas are left out: literals, an identifier, a
\* product, and arguments that begin with `!`, `-` and `(`
SepArgTexts ==
    {<<"1">>, <<"2">>, <<"a">>, Spaced(<<<<"2">>, <<"*">>, <<"3">>>>), <<"!", "b">>, <<"-", "b">>,
     <<"(", "c", ")">>}

\* the node an argument of SepArgTexts parses to
SepArgNode(w) ==
    CASE w = <<"1">> -> IntegerLiteral(<<1>>)
      [] w = <<"2">> -> IntegerLiteral(<<2>>)
      [] w = <<"a">> -> Identifier(Token_new("Ident", <<"a">>))
      [] w = <<"!", "b">> -> PrefixExpression(<<"!">>, Identifier(Token_new("Ident", <<"b">>)))
      [] w = <<"-", "b">> -> PrefixExpression(<<"-">>, Identifier(Token_new("Ident", <<"b">>)))
      [] w = <<"(", "c", ")">> -> Identifier(Token_new("Ident", <<"c">>))
      [] OTHER -> InfixExpression(IntegerLiteral(<<2>>), <<"*">>, IntegerLiteral(<<3>>))

\* one, two and three arguments
SepArgLists ==
    {<<x>> : x \in SepArgTexts} \cup {<<x, y>> : x \in SepArgTexts, y \in SepArgTexts}
    \cup {<<x, y, z>> : x \in SepArgTexts, y \in SepArgTexts, z \in SepArgTexts}

\* how the arguments are separated: `add(1, 2)`, `add(1 2)`, `add(,1, 2)`
SepStyles == {"commas", "none", "leading"}

SepText(as, style) ==
    CASE style = "commas" -> <<"a", "d", "d", "(">> \o CommaSep(as) \o <<")">>
      [] style = "none" -> <<"a", "d", "d", "(">> \o Spaced(as) \o <<")">>
      [] style = "leading" -> <<"a", "d", "d", "(", ",">> \o CommaSep(as) \o <<")">>

\* the arguments, the style, and the text; with and without `;`
SepCases ==
    {[as |-> as, style |-> st, text |-> SepText(as, st) \o t] :
        as \in SepArgLists, st \in SepStyles, t \in Terminators}

SepInputs == {c.text : c \in SepCases}

\* the two booleans, and what may stand before one
BooleanWords == {kw_true, kw_false}

BooleanContexts ==
    {<<>>, <<"!">>, <<"-">>, <<"(">>, kw_let \o <<" ", "x", " ", "=", " ">>, kw_return \o <<" ">>,
     <<"a", " ", "<", " ">>, kw_if \o <<" ">>, <<"f", "(">>}

\* a boolean in a context, with and without `;`
BooleanInputs == {pre \o w \o t : pre \in BooleanContexts, w \in BooleanWords, t \in Terminators}

Inputs ==
    RawInputs \cup WhitespaceInputs \cup BinaryInputs \cup ChainInputs \cup PrefixInputs
    \cup CallInputs \cup PrefixCallInputs \cup FnInputs \cup StmtInputs
    \cup ParamListInputs \cup ArgListInputs \cup GroupInputs \cup LetNoAssignInputs
    \cup OpenGroupInputs \cup OpenIfInputs \cup BareInputs \cup IntegerInputs
    \cup ExprEndInputs \cup BlockEndInputs \cup SepInputs \cup BooleanInputs

(***************************************************************************)
(* The state machine.  pc is where the client of the front end stands:     *)
(*   "start"          nothing constructed yet                              *)
(*   "lexer"          Lexer::new has returned                              *)
(*   "lexing"         the client calls Lexer::next_token itself            *)
(*   "parse_program"  Parser::new has returned; at the head of the loop    *)
(*   "done"           parse_program has returned                           *)
(*   "panicked"       Lexer::new panicked                                  *)
(*   "hung_in_next_token", "hung_in_Parser_new", "hung_in_parse_program"   *)
(*                    the call never returns; hung names the loop          *)
(***************************************************************************)
\* the outcome of the second parse, before it is made
NotReparsed == [outcome |-> "none", program |-> NoNode, errors |-> <<>>]

Init ==
    /\ input \in Inputs
    /\ pc = "start"
    /\ lexer = NoLexer
    /\ tokens = <<>>
    /\ curr_token = Token_default
    /\ peek_token = Token_default
    /\ errors = <<>>
    /\ statements = <<>>
    /\ program = NoNode
    /\ hung = "none"
    /\ rendered = <<>>
    /\ reparsed = NotReparsed
    /\ advances = 0

\* Lexer::new(input)
LexerNew ==
    /\ pc = "start"
    /\ IF Lexer_new_panics(input)
       THEN pc' = "panicked" /\ lexer' = lexer
       ELSE pc' = "lexer" /\ lexer' = Lexer_new(input)
    /\ UNCHANGED <<input, tokens, curr_token, peek_token, errors, statements, program, hung,
                   rendered, reparsed, advances>>

\* lexer.next_token(), called by a client that reads the token stream itself
LexerNextToken ==
    /\ pc \in {"lexer", "lexing"}
    /\ Len(tokens) < MaxTokens
    /\ \E r \in {Lexer_next_token(lexer)} :
          IF r.hung
          THEN pc' = "hung_in_next_token" /\ hung' = InLexer /\ UNCHANGED <<lexer, tokens>>
          ELSE pc' = "lexing" /\ lexer' = r.lexer /\ tokens' = Append(tokens, r.token)
                 /\ hung' = hung
    /\ UNCHANGED <<input, curr_token, peek_token, errors, statements, program, rendered, reparsed,
                   advances>>

\* the parser's fields as a cursor
Cursor ==
    [lexer |-> lexer, curr_token |-> curr_token, peek_token |-> peek_token, hung |-> "none",
     advances |-> advances]

\* Parser::new(lexer): two calls of next_token load curr_token and peek_token
Parser_new(l) ==
    next_token(next_token([lexer |-> l, curr_token |-> Token_default,
                           peek_token |-> Token_default, hung |-> "none", advances |-> 0]))

ParserNew ==
    /\ pc = "lexer"
    /\ \E p \in {Parser_new(lexer)} :
          IF p.hung # "none"
          THEN pc' = "hung_in_Parser_new" /\ hung' = p.hung
                 /\ UNCHANGED <<lexer, curr_token, peek_token, advances>>
          ELSE pc' = "parse_program" /\ hung' = hung /\ lexer' = p.lexer
                 /\ curr_token' = p.curr_token /\ peek_token' = p.peek_token
                 /\ advances' = p.advances
    /\ errors' = <<>>
    /\ UNCHANGED <<input, tokens, statements, program, rendered, reparsed>>

\* Parser::finished
finished(p) == p.curr_token.t = "EOF"

\* parse_program_iteration with `Err(e) => {}`: the error of a failed statement is dropped
parse_program_iteration_dropping(p, stmts, errs) ==
    Then(parse_statement(p), LAMBDA r :
        [p |-> next_token(r.p),
         statements |-> IF r.ok THEN Append(stmts, r.node) ELSE stmts,
         errors |-> errs])

\* one iteration of the loop of Parser::parse_program: the cursor, the
\* statements and the errors after it
parse_program_iteration(p, stmts, errs) ==
    Then(parse_statement(p), LAMBDA r :
        [p |-> next_token(r.p),
         statements |-> IF r.ok THEN Append(stmts, r.node) ELSE stmts,
         errors |-> IF r.ok THEN errs ELSE Append(errs, r.err)])

ParseProgramLoop ==
    /\ pc = "parse_program"
    /\ ~finished(Cursor)
    /\ \E it \in {parse_program_iteration(Cursor, statements, errors)} :
          IF it.p.hung # "none"
          THEN pc' = "hung_in_parse_program" /\ hung' = it.p.hung
                 /\ UNCHANGED <<lexer, curr_token, peek_token, statements, errors, advances>>
          ELSE pc' = "parse_program" /\ hung' = hung /\ lexer' = it.p.lexer
                 /\ curr_token' = it.p.curr_token /\ peek_token' = it.p.peek_token
                 /\ statements' = it.statements /\ errors' = it.errors
                 /\ advances' = it.p.advances
    /\ UNCHANGED <<input, tokens, program, rendered, reparsed>>

\* parse_program returns Node::Program { statements }
ParseProgramReturn ==
    /\ pc = "parse_program"
    /\ finished(Cursor)
    /\ pc' = "done"
    /\ program' = Program(statements)
    /\ UNCHANGED <<input, lexer, tokens, curr_token, peek_token, errors, statements, hung,
                   rendered, reparsed, advances>>

\* the direct children of a node
Children(n) ==
    CASE n.kind \in {"Program", "BlockStatement"} -> {n.statements[i] : i \in 1..Len(n.statements)}
      [] n.kind = "LetStatement" -> {n.name} \cup (IF n.value.some THEN {n.value.v} ELSE {})
      [] n.kind = "ReturnStatement" -> IF n.value.some THEN {n.value.v} ELSE {}
      [] n.kind = "ExpressionStatement" -> IF n.expression.some THEN {n.expression.v} ELSE {}
      [] n.kind = "PrefixExpression" -> {n.right}
      [] n.kind = "InfixExpression" -> {n.left, n.right}
      [] n.kind = "IfExpression" ->
            {n.condition, n.consequence} \cup (IF n.alternative.some THEN {n.alternative.v} ELSE {})
      [] n.kind = "FunctionLiteral" ->
            {n.parameters[i] : i \in 1..Len(n.parameters)} \cup {n.body}
      [] n.kind = "CallExpression" ->
            {n.function} \cup {n.arguments[i] : i \in 1..Len(n.arguments)}
      [] OTHER -> {}

RECURSIVE Nodes(_)
\* a node and everything below it
Nodes(n) == {n} \cup UNION {Nodes(c) : c \in Children(n)}

RECURSIVE Joined(_, _)
\* the texts with sep between them
Joined(ts, sep) ==
    IF ts = <<>> THEN <<>>
    ELSE IF Len(ts) = 1 THEN Head(ts)
    ELSE Head(ts) \o sep \o Joined(Tail(ts), sep)

\* the node kinds whose canonical text the specification gives
RenderedKinds ==
    {"Program", "ExpressionStatement", "BlockStatement", "Identifier", "IntegerLiteral", "Boolean",
     "PrefixExpression", "InfixExpression", "FunctionLiteral", "CallExpression"}

RECURSIVE as_string(_)
\* Node::as_string, the canonical text of a node (spec section 4.3; the texts
\* expected by test_operator_precedence_parsing)
as_string(n) ==
    CASE n.kind \in {"Program", "BlockStatement"} ->
            Flatten([i \in 1..Len(n.statements) |-> as_string(n.statements[i])])
      [] n.kind = "ExpressionStatement" -> as_string(n.expression.v) \o <<";">>
      [] n.kind = "Identifier" -> n.value.v
      [] n.kind = "IntegerLiteral" -> DigitText(n.value)
      [] n.kind = "Boolean" -> IF n.value THEN kw_true ELSE kw_false
      [] n.kind = "PrefixExpression" -> <<"(">> \o n.operator \o as_string(n.right) \o <<")">>
      [] n.kind = "InfixExpression" ->
            <<"(">> \o as_string(n.left) \o <<" ">> \o n.operator \o <<" ">> \o as_string(n.right)
                \o <<")">>
      [] n.kind = "FunctionLiteral" ->
            kw_fn \o <<"(">>
                \o Joined([i \in 1..Len(n.parameters) |-> as_string(n.parameters[i])], <<",", " ">>)
                \o <<")", " ", "{", " ">> \o as_string(n.body) \o <<" ", "}">>
      [] n.kind = "CallExpression" ->
            as_string(n.function) \o <<"(">>
                \o Joined([i \in 1..Len(n.arguments) |-> as_string(n.arguments[i])], <<",", " ">>)
                \o <<")">>

RECURSIVE parse_program(_, _, _)
\* Parser::parse_program, the whole loop: the outcome, the program and the errors
parse_program(p, stmts, errs) ==
    IF finished(p)
    THEN [outcome |-> "done", program |-> Program(stmts), errors |-> errs]
    ELSE Then(parse_program_iteration(p, stmts, errs), LAMBDA it :
             IF it.p.hung # "none"
             THEN [outcome |-> "hung", program |-> NoNode, errors |-> errs]
             ELSE parse_program(it.p, it.statements, it.errors))

\* Lexer::new(text), Parser::new(lexer), parser.parse_program(), as the tests call them
parse_text(text) ==
    IF Lexer_new_panics(text)
    THEN [outcome |-> "panicked", program |-> NoNode, errors |-> <<>>]
    ELSE Then(Parser_new(Lexer_new(text)), LAMBDA p :
             IF p.hung # "none"
             THEN [outcome |-> "hung", program |-> NoNode, errors |-> <<>>]
             ELSE parse_program(p, <<>>, <<>>))

\* program.as_string(), called on a program that was parsed with no error
Render ==
    /\ pc = "done"
    /\ errors = <<>>
    /\ \A n \in Nodes(program) : n.kind \in RenderedKinds
    /\ rendered' = as_string(program)
    /\ pc' = "rendered"
    /\ UNCHANGED <<input, lexer, tokens, curr_token, peek_token, errors, statements, program, hung,
                   reparsed, advances>>

\* the canonical text is parsed in its turn
Reparse ==
    /\ pc = "rendered"
    /\ \E r \in {parse_text(rendered)} : reparsed' = r
    /\ pc' = "reparsed"
    /\ UNCHANGED <<input, lexer, tokens, curr_token, peek_token, errors, statements, program, hung,
                   rendered, advances>>

Next ==
    \/ LexerNew \/ LexerNextToken \/ ParserNew \/ ParseProgramLoop \/ ParseProgramReturn
    \/ Render \/ Reparse

Spec == Init /\ [][Next]_vars

(***************************************************************************)
(* What the properties below speak of.                                     *)
(***************************************************************************)
Hung == pc \in {"hung_in_next_token", "hung_in_Parser_new", "hung_in_parse_program"}

\* the front end has failed to return: a panic, or a loop that never ends
Failed == pc = "panicked" \/ Hung

IsPrefix(s, t) == Len(s) <= Len(t) /\ SubSeq(t, 1, Len(s)) = s

ParserErrors ==
    {"TokenUnrecognized", "IdentExpected", "AssignExpected", "IntegerParsingFailed",
     "BooleanParsingFailed", "GroupExpressionParsingFailed", "IncorrectIfStatement",
     "IncorrectFunctionDeclaration"}

StatementKinds == {"LetStatement", "ReturnStatement", "ExpressionStatement"}

Id(w) == Identifier(Token_new("Ident", w))

Stmt(e) == ExpressionStatement(Some(e))

\* the input without its whitespace
Visible(text) == SelectSeq(text, LAMBDA ch : ch \notin Whitespace)

\* the literal texts of the tokens, one after the other
Texts(toks) == Flatten([i \in 1..Len(toks) |-> toks[i].v])

(***************************************************************************)
(* C1.  parse_program terminates on every finite input: once called, it    *)
(* never stays for ever in a loop of the parser or of the lexer it pulls   *)
(* tokens from.  Refuted: `fn(x` leaves the parameter loop of              *)
(* parse_function_literal turning at end of input.                         *)
(***************************************************************************)
C1_ParseProgramTerminates == pc # "hung_in_parse_program"

\* statements whose outcome is known, each ending in `;`
KnownStmts ==
    {<<"a", ";">>, <<"@", ";">>,
     Spaced(<<kw_let, <<"x">>, <<"=">>, <<"5", ";">>>>),
     Spaced(<<kw_let, <<"x">>, <<"5", ";">>>>),
     Spaced(<<kw_return, <<"a", ";">>>>)}

\* the statements a known statement contributes
KnownStatements(w) ==
    CASE w = <<"a", ";">> -> <<Stmt(Id(<<"a">>))>>
      [] w = <<"@", ";">> -> <<>>
      [] w = Spaced(<<kw_let, <<"x">>, <<"=">>, <<"5", ";">>>>) ->
            <<LetStatement(Id(<<"x">>), Some(IntegerLiteral(<<5>>)))>>
      [] w = Spaced(<<kw_let, <<"x">>, <<"5", ";">>>>) -> <<Stmt(IntegerLiteral(<<5>>))>>
      [] w = Spaced(<<kw_return, <<"a", ";">>>>) -> <<ReturnStatement(Some(Id(<<"a">>)))>>

\* the errors a known statement contributes
KnownErrors(w) ==
    CASE w = <<"@", ";">> -> <<"TokenUnrecognized", "TokenUnrecognized">>
      [] w = Spaced(<<kw_let, <<"x">>, <<"5", ";">>>>) -> <<"AssignExpected">>
      [] OTHER -> <<>>

\* a text of known statements gives the outcome of each, in order
C2_KnownOutcome ==
    \A ss \in SeqsUpTo(KnownStmts, MaxStmts) :
        input = Spaced(ss) /\ ss # <<>> =>
            /\ ~Failed
            /\ pc = "done" =>
                  /\ program = Program(Flatten([i \in 1..Len(ss) |-> KnownStatements(ss[i])]))
                  /\ errors = Flatten([i \in 1..Len(ss) |-> KnownErrors(ss[i])])

\* what one step of parse_program does to the statements, the errors and the cursor
C2_Iteration ==
    /\ pc = "parse_program" /\ pc' = "parse_program" =>
          /\ Len(statements') + Len(errors') = Len(statements) + Len(errors) + 1
          /\ IsPrefix(statements, statements')
          /\ IsPrefix(errors, errors')
          /\ \A i \in 1..Len(statements') : statements'[i].kind \in StatementKinds
          /\ \A i \in 1..Len(errors') : errors'[i] \in ParserErrors
          /\ <<lexer, curr_token, peek_token>>' # <<lexer, curr_token, peek_token>>
    /\ pc = "parse_program" /\ pc' = "done" =>
          /\ curr_token.t = "EOF"
          /\ program' = Program(statements)
          /\ errors' = errors

C3_LexerNeverFails == pc \notin {"panicked", "hung_in_next_token"}

(***************************************************************************)
(* C4.  For an input of whitespace characters only, parse_program returns  *)
(* a Program with no statements and the error list stays empty.            *)
(* Refuted: the empty input panics in Lexer::new.                          *)
(***************************************************************************)
C4_WhitespaceOnly ==
    (\A i \in 1..Len(input) : input[i] \in Whitespace) =>
        /\ ~Failed
        /\ errors = <<>>
        /\ pc = "done" => program = Program(<<>>)

(***************************************************************************)
(* C5.  next_token returns an end-of-input token only when every character *)
(* of the input has been consumed: the tokens returned before it carry     *)
(* every visible character of the input; and the parser does not stop      *)
(* with input left over.  Refuted: the character `0` is the sentinel.      *)
(***************************************************************************)
C5_EofOnlyAtEnd ==
    /\ \A k \in 1..Len(tokens) :
          tokens[k].t = "EOF" => Texts(SubSeq(tokens, 1, k - 1)) = Visible(input)
    /\ pc = "done" => peek_token.t = "EOF" /\ Visible(lexer.input) = <<>>

\* shorthands for the expected trees and the texts they are parsed from
Infix(l, op, r) == InfixExpression(l, op, r)

ChainText(op1, op2, t) == Spaced(<<<<"a">>, op1, <<"b">>, op2, <<"c">>>>) \o t

(***************************************************************************)
(* C6.  Binary operators of one precedence level are left-associative:     *)
(* `a op1 b op2 c`, with op1 and op2 of equal level, parses to             *)
(* Infix(Infix(a, op1, b), op2, c).  Refuted for `==` and `!=`, which the  *)
(* lexer never delivers as operators (C8).                                 *)
(***************************************************************************)
C6_LeftAssociative ==
    \A op1 \in InfixOps, op2 \in InfixOps, t \in Terminators :
        Level(op1) = Level(op2) /\ input = ChainText(op1, op2, t) =>
            /\ ~Failed
            /\ pc = "done" =>
                  program = Program(<<Stmt(Infix(Infix(Id(<<"a">>), op1, Id(<<"b">>)), op2, Id(<<"c">>)))>>)

\* f(b op c)
CallOf(op) == CallExpression(Id(<<"f">>), <<Infix(Id(<<"b">>), op, Id(<<"c">>))>>)

\* `a op1 f(b op2 c) op3 d;`
CallText(op1, op2, op3) ==
    Spaced(<<<<"a">>, op1, <<"f", "(">> \o Spaced(<<<<"b">>, op2, <<"c">>>>) \o <<")">>, op3, <<"d">>>>)
        \o <<";">>

\* x op1 y op3 z for operands that are already trees
Bound(x, op1, y, op3, z) ==
    IF Level(op3) > Level(op1)
    THEN Infix(x, op1, Infix(y, op3, z))
    ELSE Infix(Infix(x, op1, y), op3, z)

(***************************************************************************)
(* C7.  Operators bind by precedence.  With level(hi) > level(lo),         *)
(* `a lo b hi c` is Infix(a, lo, Infix(b, hi, c)) and `a hi b lo c` is     *)
(* Infix(Infix(a, hi, b), lo, c); a prefix operator binds tighter than     *)
(* every binary operator; a call binds tighter than every operator.        *)
(* Refuted wherever `==` or `!=` is one of the operators (C8).             *)
(***************************************************************************)
C7_Precedence ==
    /\ \A lo \in InfixOps, hi \in InfixOps, t \in Terminators :
          Level(hi) > Level(lo) =>
              /\ input = ChainText(lo, hi, t) =>
                    /\ ~Failed
                    /\ pc = "done" =>
                          program = Program(<<Stmt(Infix(Id(<<"a">>), lo, Infix(Id(<<"b">>), hi, Id(<<"c">>))))>>)
              /\ input = ChainText(hi, lo, t) =>
                    /\ ~Failed
                    /\ pc = "done" =>
                          program = Program(<<Stmt(Infix(Infix(Id(<<"a">>), hi, Id(<<"b">>)), lo, Id(<<"c">>)))>>)
    /\ \A pre \in PrefixOps, op \in InfixOps :
          input = pre \o Spaced(<<<<"a">>, op, <<"b">>>>) \o <<";">> =>
              /\ ~Failed
              /\ pc = "done" =>
                    program = Program(<<Stmt(Infix(PrefixExpression(pre, Id(<<"a">>)), op, Id(<<"b">>)))>>)
    /\ \A pre \in PrefixOps :
          input = pre \o <<"f", "(", "a", ")", ";">> =>
              /\ ~Failed
              /\ pc = "done" =>
                    program = Program(<<Stmt(PrefixExpression(pre,
                                  CallExpression(Id(<<"f">>), <<Id(<<"a">>)>>)))>>)
    /\ \A op1 \in InfixOps, op2 \in InfixOps, op3 \in InfixOps :
          input = CallText(op1, op2, op3) =>
              /\ ~Failed
              /\ pc = "done" =>
                    program = Program(<<Stmt(Bound(Id(<<"a">>), op1, CallOf(op2), op3, Id(<<"d">>)))>>)

EqualityOps == {<<"=", "=">>, <<"!", "=">>}

(***************************************************************************)
(* C8.  `x == y` and `x != y` parse, with no error, to one statement       *)
(* holding Infix(x, "==", y), respectively Infix(x, "!=", y).              *)
(* Refuted: the lexer delivers `=` `=` and `!` `=`, never one token.       *)
(***************************************************************************)
C8_EqualityOperators ==
    \A x \in OperandWords, y \in OperandWords, op \in EqualityOps, t \in Terminators :
        input = Spaced(<<x, op, y>>) \o t /\ pc = "done" =>
                  /\ errors = <<>>
                  /\ program = Program(<<Stmt(Infix(OperandNode(x), op, OperandNode(y)))>>)

\* what follows the parameter list and does not start with `{`
NonBlockBodies == {b \in FnBodies : Visible(b) # <<>> /\ Head(Visible(b)) # "{"}

(***************************************************************************)
(* C9.  A function literal is accepted only when `{` follows the `)` of    *)
(* its parameter list: with any other token there, an error is recorded    *)
(* and the program holds no FunctionLiteral.                               *)
(* Refuted: `fn() 5 }` parses, the token after `)` is skipped unread.      *)
(***************************************************************************)
C9_BodyNeedsBrace ==
    \A ws \in SeqsUpTo(ParamWords, MaxParamToks), body \in NonBlockBodies :
        input = kw_fn \o <<"(">> \o Spaced(ws) \o <<")">> \o body /\ pc = "done" =>
            /\ errors # <<>>
            /\ \A n \in Nodes(program) : n.kind # "FunctionLiteral"

(***************************************************************************)
(* C10.  In every FunctionLiteral of a returned Program every parameter is *)
(* an Identifier whose token is of kind identifier.                        *)
(* Refuted: `fn(1) {}` has the parameter Identifier(Int "1").              *)
(***************************************************************************)
C10_ParametersAreIdentifiers ==
    pc = "done" =>
        \A n \in Nodes(program) :
            n.kind = "FunctionLiteral" =>
                \A i \in 1..Len(n.parameters) :
                    n.parameters[i].kind = "Identifier" /\ n.parameters[i].value.t = "Ident"

\* the block a block text parses to
BlockNode(body) ==
    IF body = <<"{", "}">> THEN BlockStatement(<<>>)
    ELSE BlockStatement(<<Stmt(Infix(Id(<<"x">>), <<"+">>, Id(<<"y">>)))>>)

\* `fn(` ps `) ` body
ParamListText(ps, body, t) == kw_fn \o <<"(">> \o CommaSep(ps) \o <<")", " ">> \o body \o t

(***************************************************************************)
(* C11.  `fn(` n identifiers separated by commas `)` and a `{ ... }` body  *)
(* parse with no error to a FunctionLiteral whose parameters are those n   *)
(* identifiers in source order, n = 0 included, and whose body is the      *)
(* block.                                                                  *)
(***************************************************************************)
C11_ParameterList ==
    IsPrefix(kw_fn, input) =>
    \A ps \in SeqsUpTo(IdentWords, MaxList), body \in BlockTexts, t \in Terminators :
        input = ParamListText(ps, body, t) =>
            /\ ~Failed
            /\ errors = <<>>
            /\ pc = "done" =>
                  program = Program(<<Stmt(FunctionLiteral([i \in 1..Len(ps) |-> Id(ps[i])],
                                                           BlockNode(body)))>>)

\* `fn(x, y) { x + y; }` has been parsed
C11_Witness ==
    /\ input = ParamListText(<<<<"x">>, <<"y">>>>, <<"{", " ", "x", " ", "+", " ", "y", ";", " ", "}">>, <<>>)
    /\ pc = "done"
    /\ errors = <<>>
    /\ program.statements[1].expression.v.parameters = <<Id(<<"x">>), Id(<<"y">>)>>

\* the expression an argument text parses to
ArgNode(w) ==
    CASE w = <<"1">> -> IntegerLiteral(<<1>>)
      [] w = Spaced(<<<<"2">>, <<"*">>, <<"3">>>>) ->
            Infix(IntegerLiteral(<<2>>), <<"*">>, IntegerLiteral(<<3>>))
      [] w = Spaced(<<<<"4">>, <<"+">>, <<"5">>>>) ->
            Infix(IntegerLiteral(<<4>>), <<"+">>, IntegerLiteral(<<5>>))
      [] w = <<"f", "(", "-", "b", ")">> ->
            CallExpression(Id(<<"f">>), <<PrefixExpression(<<"-">>, Id(<<"b">>))>>)

\* `add(` as `)`
ArgListText(as, t) == <<"a", "d", "d", "(">> \o CommaSep(as) \o <<")">> \o t

(***************************************************************************)
(* C12.  `add(` k expressions separated by commas `)` parses with no       *)
(* error to a CallExpression whose function is the expression left of `(`  *)
(* and whose arguments are the k expressions in source order, each the     *)
(* whole expression between the commas, k = 0 included.                    *)
(***************************************************************************)
C12_ArgumentList ==
    IsPrefix(<<"a", "d", "d", "(">>, input) =>
    \A as \in SeqsUpTo(ArgTexts, MaxList), t \in Terminators :
        input = ArgListText(as, t) =>
            /\ ~Failed
            /\ errors = <<>>
            /\ pc = "done" =>
                  program = Program(<<Stmt(CallExpression(Id(<<"a", "d", "d">>),
                                                          [i \in 1..Len(as) |-> ArgNode(as[i])]))>>)

\* `add(1, 2 * 3, 4 + 5)` has been parsed: three arguments, the second (2 * 3)
C12_Witness ==
    /\ input = ArgListText(<<<<"1">>, Spaced(<<<<"2">>, <<"*">>, <<"3">>>>),
                             Spaced(<<<<"4">>, <<"+">>, <<"5">>>>)>>, <<>>)
    /\ pc = "done"
    /\ errors = <<>>
    /\ Len(program.statements[1].expression.v.arguments) = 3
    /\ program.statements[1].expression.v.arguments[2] =
          Infix(IntegerLiteral(<<2>>), <<"*">>, IntegerLiteral(<<3>>))

\* `(a op1 b) op2 c`
GroupLeftText(op1, op2, t) ==
    <<"(">> \o Spaced(<<<<"a">>, op1, <<"b">>>>) \o <<")", " ">> \o Spaced(<<op2, <<"c">>>>) \o t

\* `a op2 (b op1 c)`
GroupRightText(op1, op2, t) ==
    Spaced(<<<<"a">>, op2>>) \o <<" ", "(">> \o Spaced(<<<<"b">>, op1, <<"c">>>>) \o <<")">> \o t

(***************************************************************************)
(* C13.  A parenthesised sub-expression is one operand whatever the        *)
(* operators around it, and the parentheses add no node: for all binary    *)
(* operators op1, op2, `(a op1 b) op2 c` parses to                         *)
(* Infix(Infix(a, op1, b), op2, c) and `a op2 (b op1 c)` to                *)
(* Infix(a, op2, Infix(b, op1, c)).  Refuted wherever `==` or `!=` is one  *)
(* of the operators (C8).                                                  *)
(***************************************************************************)
C13_GroupingOverrides ==
    \A op1 \in InfixOps, op2 \in InfixOps, t \in Terminators :
        /\ input = GroupLeftText(op1, op2, t) =>
              /\ ~Failed
              /\ errors = <<>>
              /\ pc = "done" =>
                    program = Program(<<Stmt(Infix(Infix(Id(<<"a">>), op1, Id(<<"b">>)), op2, Id(<<"c">>)))>>)
        /\ input = GroupRightText(op1, op2, t) =>
              /\ ~Failed
              /\ errors = <<>>
              /\ pc = "done" =>
                    program = Program(<<Stmt(Infix(Id(<<"a">>), op2, Infix(Id(<<"b">>), op1, Id(<<"c">>))))>>)

\* `let` id n `;`
LetNoAssignText(id, n) == Spaced(<<kw_let, id, n \o <<";">>>>)

AfterOpenGroup(f) == IF f = <<" ", "b", ";">> THEN <<Stmt(Id(<<"b">>))>> ELSE <<>>

(***************************************************************************)
(* C15.  A group whose inner expression is not followed by `)` makes its   *)
(* statement fail with GroupExpressionParsingFailed, the first error       *)
(* recorded, no node of the group is in the program, and parse_program     *)
(* returns.  Refuted: on `(1 + 2` parse_program never returns, the lexer   *)
(* turns for ever in the digits that end the input (C1, C3).               *)
(***************************************************************************)
C15_OpenGroupFails ==
    \A e \in GroupInners, f \in GroupFollowers :
        input = <<"(">> \o e \o f =>
            /\ pc \notin {"hung_in_Parser_new", "hung_in_parse_program"}
            /\ pc = "done" =>
                  /\ errors # <<>> /\ errors[1] = "GroupExpressionParsingFailed"
                  /\ program = Program(AfterOpenGroup(f))

\* `if` c f, and `if` c `{ b } else` f
IfNoBraceText(c, f) == kw_if \o <<" ">> \o c \o f

ElseNoBraceText(c, f) == Spaced(<<kw_if, c, <<"{">>, <<"b">>, <<"}">>, kw_else>>) \o f

(***************************************************************************)
(* C16.  An if-expression whose condition, or whose `else`, is not         *)
(* followed by `{` makes its statement fail with IncorrectIfStatement, the *)
(* first error recorded, no IfExpression is in the program, and            *)
(* parse_program returns.  Refuted: on `if 1 < 2` and on `if a 5`          *)
(* parse_program never returns, the lexer turns for ever in the digits     *)
(* that end the input (C1, C3).                                            *)
(***************************************************************************)
C16_OpenIfFails ==
    \A c \in IfConditions, f \in IfFollowers :
        input \in {IfNoBraceText(c, f), ElseNoBraceText(c, f)} =>
            /\ pc \notin {"hung_in_Parser_new", "hung_in_parse_program"}
            /\ pc = "done" =>
                  /\ errors # <<>> /\ errors[1] = "IncorrectIfStatement"
                  /\ \A node \in Nodes(program) : node.kind # "IfExpression"

ExpressionKinds ==
    {"Identifier", "IntegerLiteral", "PrefixExpression", "InfixExpression", "Boolean",
     "IfExpression", "FunctionLiteral", "CallExpression"}

\* the expression field of a statement node
Held(n) == IF n.kind = "ExpressionStatement" THEN n.expression ELSE n.value

(***************************************************************************)
(* C17.  Every LetStatement, ReturnStatement and ExpressionStatement that  *)
(* parse_program has collected, at any depth, holds an expression: its     *)
(* value is present and is an expression node.  A statement whose          *)
(* expression is missing (`return;`, `let x = ;`, `;`, also inside a       *)
(* block) leaves an error and no node.                                     *)
(***************************************************************************)
C17_StatementsHoldExpressions ==
    /\ \A n \in Nodes(Program(statements)) :
          n.kind \in StatementKinds => Held(n).some /\ Held(n).v.kind \in ExpressionKinds
    /\ pc = "done" => program = Program(statements)
    /\ input \in BareInputs /\ pc = "done" =>
          /\ program = Program(<<>>)
          /\ errors # <<>> /\ errors[1] = "TokenUnrecognized"

\* `return;` has been parsed: an error, no node
C17_Witness ==
    /\ input = kw_return \o <<";">>
    /\ pc = "done"
    /\ program = Program(<<>>)
    /\ errors = <<"TokenUnrecognized">>

\* what may stand before an integer in a statement
IntegerContexts == {<<>>, <<"-">>, <<"a", " ", "+", " ">>}

\* the value of a digit text, leading zeros dropped
ValueOf(n) == StripZeros([i \in 1..Len(n) |-> DigitValue(n[i])])

\* ds is the canonical decimal form of a value of at most i64::MAX
FitsI64(ds) ==
    /\ ds # <<>>
    /\ StripZeros(ds) = ds
    /\ \/ Len(ds) < Len(I64MaxDigits)
       \/ Len(ds) = Len(I64MaxDigits) /\ DigitsLeq(ds, I64MaxDigits)

(***************************************************************************)
(* C18.  An integer token whose digits denote a value above i64::MAX makes *)
(* its statement fail with IntegerParsingFailed, the first error recorded; *)
(* nothing panics and no IntegerLiteral ever holds a value that is not the *)
(* token's own (none wrapped, truncated or saturated): every literal       *)
(* collected holds a value of at most i64::MAX, and i64::MAX itself is     *)
(* accepted with its value.                                                *)
(***************************************************************************)
C18_IntegerOutOfRange ==
    /\ \A pre \in IntegerContexts, n \in OutOfRangeTexts :
          input = pre \o n \o <<";">> =>
              /\ ~Failed
              /\ statements = <<>>
              /\ pc = "done" =>
                    /\ errors # <<>> /\ errors[1] = "IntegerParsingFailed"
                    /\ program = Program(<<>>)
    /\ \A node \in Nodes(Program(statements)) :
          node.kind = "IntegerLiteral" => FitsI64(node.value)
    /\ \A n \in InRangeTexts :
          input = n \o <<";">> /\ Head(n) # "0" /\ pc = "done" =>
              errors = <<>> /\ program = Program(<<Stmt(IntegerLiteral(ValueOf(n)))>>)

\* `9223372036854775808;` has been parsed
C18_Witness ==
    /\ input = AboveI64MaxText \o <<";">>
    /\ pc = "done"
    /\ errors[1] = "IntegerParsingFailed"
    /\ program = Program(<<>>)

\* texts of the language, each a sequence of well-formed statements
WellFormedInputs ==
    (WhitespaceInputs \ {<<>>}) \cup BinaryInputs \cup ChainInputs \cup PrefixInputs \cup CallInputs
    \cup PrefixCallInputs \cup ParamListInputs \cup ArgListInputs \cup GroupInputs
    \cup {n \o <<";">> : n \in InRangeTexts}

(***************************************************************************)
(* C19.  The canonical text round-trips: a well-formed input parsed with   *)
(* no error, rendered and parsed again gives a Program equal to the first, *)
(* with no error, and rendering the second Program gives the same text.    *)
(* Refuted: an input of whitespace alone parses to the empty Program,      *)
(* whose text is empty, and Lexer::new panics on the empty text (C3).      *)
(***************************************************************************)
C19_RoundTrip ==
    input \in WellFormedInputs /\ pc = "reparsed" =>
        /\ reparsed.outcome = "done"
        /\ reparsed.errors = <<>>
        /\ reparsed.program = program
        /\ as_string(reparsed.program) = rendered

RECURSIVE LexerAfter(_, _)
\* the lexer made from l after n calls of next_token, and the token of the n-th
LexerAfter(l, n) ==
    IF n = 0 THEN [lexer |-> l, token |-> Token_default, hung |-> FALSE]
    ELSE Then(LexerAfter(l, n - 1), LAMBDA r : IF r.hung THEN r ELSE Lexer_next_token(r.lexer))

\* the n-th token of the output stream of Lexer::new(input), and the lexer behind it
Stream(n) == LexerAfter(Lexer_new(input), n)

\* Parser::new has returned
Loaded == pc \in {"parse_program", "done", "rendered", "reparsed"}

\* the token kinds expect_peek is called with
ExpectedKinds == {"Ident", "Assign", "RParen", "LBrace", "LParen"}

\* curr_token and peek_token are tokens advances - 1 and advances of the stream
C20_Window ==
    Loaded =>
        /\ advances >= 2
        /\ curr_token = Stream(advances - 1).token
        /\ peek_token = Stream(advances).token
        /\ lexer = Stream(advances).lexer
        /\ \A q \in {next_token(Cursor)} :
              q.hung = "none" =>
                  /\ q.advances = advances + 1
                  /\ q.curr_token = peek_token
                  /\ q.peek_token = Stream(advances + 1).token
        /\ \A t \in ExpectedKinds :
              IF peek_token.t = t
              THEN expect_peek_ok(Cursor, t) /\ expect_peek(Cursor, t) = next_token(Cursor)
              ELSE ~expect_peek_ok(Cursor, t) /\ expect_peek(Cursor, t) = Cursor

\* Parser::new makes two advances, an iteration of parse_program at least one
C20_Advance ==
    /\ ~Loaded /\ Loaded' => advances' = 2
    /\ pc = "parse_program" /\ pc' = "parse_program" => advances' > advances
    /\ Loaded /\ pc' # "parse_program" => advances' = advances

(***************************************************************************)
(* C20.  Two tokens of lookahead.  From the return of Parser::new on,      *)
(* curr_token and peek_token are the k-th and (k+1)-th tokens of the       *)
(* lexer's output and the lexer stands right behind them, where k + 1 is   *)
(* the number of advances made: k = 0 after construction, and each         *)
(* advance (next_token, or an expect_peek that succeeds) raises k by one,  *)
(* so that no token is skipped and none is delivered twice.  An            *)
(* expect_peek that fails leaves curr_token, peek_token and the lexer as   *)
(* they were.                                                              *)
(***************************************************************************)
C20_TwoTokenLookahead == [][C20_Advance]_vars /\ []C20_Window

\* `let x 5;`: Parser::new, a successful expect_peek, a failed one and the
\* advance of parse_program have been made
C20_Witness ==
    /\ input = LetNoAssignText(<<"x">>, <<"5">>)
    /\ pc = "parse_program"
    /\ errors = <<"AssignExpected">>
    /\ advances = 4
    /\ curr_token = Token_new("Int", <<"5">>)
    /\ peek_token = Token_new("Semicolon", <<";">>)

\* parse_expression(Precedence::Lowest) called on the first token of the input,
\* as parse_expression_statement calls it in the first iteration of parse_program
FirstExpression == parse_expression(Parser_new(Lexer_new(input)), Lowest)

\* the first iteration of parse_program has been made, and no other
AfterFirstStatement == pc = "parse_program" /\ advances > 2 /\ Len(statements) + Len(errors) = 1

\* that call has been made and has returned Ok: the first iteration has
\* collected its statement
FirstExpressionReturned ==
    /\ AfterFirstStatement
    /\ statements = <<Stmt(FirstExpression.node)>>
    /\ FirstExpression.ok

\* the `;` parse_expression_statement consumes after the expression
SemicolonAfter(c) == IF c.f # <<>> /\ Head(c.f) = <<";">> THEN 1 ELSE 0

\* the cursor of r stands on token n of the stream, the peek token is token n + 1
StandsOn(r, n) ==
    /\ r.p.curr_token = Stream(n).token
    /\ r.p.peek_token = Stream(n + 1).token
    /\ r.p.advances = n + 1

\* after the statement of an expression that ended on token n, and the advance
\* of parse_program, the current token is the first one after it (and after its `;`)
LandsAfter(c, n) == curr_token = Stream(n + SemicolonAfter(c) + 1).token

(***************************************************************************)
(* C21, as stated.  Whenever parse_expression returns Ok, the current      *)
(* token is the last token of the expression parsed and the peek token is  *)
(* the first token after it.  Refuted: on `if a { b` the block is ended by *)
(* the end-of-input token, and parse_expression returns with the current   *)
(* token on it, one past `b`.                                              *)
(***************************************************************************)
C21_CursorOnLastToken ==
    \A c \in ExprEndCases :
        input = c.text /\ AfterFirstStatement /\ errors = <<>> =>
            /\ FirstExpressionReturned
            /\ StandsOn(FirstExpression, Len(c.e))
            /\ LandsAfter(c, Len(c.e))

(***************************************************************************)
(* C21, amended.  Whenever parse_expression returns Ok, the current token  *)
(* is the last token of the expression parsed (the literal or identifier,  *)
(* the `)` of a group or call, the `}` of a block) and the peek token is   *)
(* the first token after it, so that the single advance of the caller      *)
(* lands on the first token of what follows; except that when the last     *)
(* block of an if-expression or function literal is ended by an            *)
(* end-of-input token in the place of `}`, the current token is that       *)
(* end-of-input token, one past the last token of the expression, and the  *)
(* peek token is the token after it.                                       *)
(***************************************************************************)
C21_CursorAtEndOfExpression ==
    \A c \in ExprEndCases :
        input = c.text /\ AfterFirstStatement /\ errors = <<>> =>
            /\ FirstExpressionReturned
            /\ IF c.open
               THEN /\ StandsOn(FirstExpression, Len(c.e) + 1)
                    /\ FirstExpression.p.curr_token.t = "EOF"
                    /\ LandsAfter(c, Len(c.e) + 1)
               ELSE /\ StandsOn(FirstExpression, Len(c.e))
                    /\ LandsAfter(c, Len(c.e))

\* `( a + b ) y ;`: the group has been parsed as a statement, parse_program has
\* advanced once and stands on `y`
C21_Witness ==
    /\ input = Spaced(<<<<"(">>, <<"a">>, <<"+">>, <<"b">>, <<")">>, <<"y">>, <<";">>>>)
    /\ FirstExpressionReturned
    /\ FirstExpression.p.curr_token = Token_new("RParen", <<")">>)
    /\ statements = <<Stmt(Infix(Id(<<"a">>), <<"+">>, Id(<<"b">>)))>>
    /\ curr_token = Token_new("Ident", <<"y">>)
    /\ advances = 7

\* the block a case must give: the statements parsed so far, in order
ExpectedBlock(c) == BlockStatement([i \in 1..Len(c.body) |-> BlockStmtNode(c.body[i])])

\* the `}` of a case that close no block: each is a statement that fails.  The
\* head with two open blocks takes two `}`, the others one.
SpareBraces(c) ==
    LET opened == IF c.head = <<kw_if, <<"a">>, <<"{">>, kw_if, <<"y">>, <<"{">>>> THEN 2 ELSE 1
    IN IF Len(c.close) > opened THEN Len(c.close) - opened ELSE 0

(***************************************************************************)
(* C22.  parse_block_statement ends a block at the first `}` or at the end *)
(* of the input, whichever comes first, and returns the BlockStatement     *)
(* with the statements parsed so far.  A block whose `}` is missing        *)
(* (`if a { b`, `fn ( x ) { b`, `if a { c } else { b`, and `if a { if y {  *)
(* b` where two are missing) is accepted with no error recorded, and gives *)
(* the program that the closed block gives; a `}` after the one that       *)
(* closed the block is no part of it.                                      *)
(***************************************************************************)
C22_BlockEnds ==
    IsPrefix(kw_if, input) \/ IsPrefix(kw_fn, input) =>
    \A c \in BlockEndCases :
        input = c.text =>
            /\ ~Failed
            /\ pc = "done" =>
                  /\ program = Program(<<Stmt(BlockOwner(c.head, ExpectedBlock(c)))>>)
                  /\ errors = [i \in 1..SpareBraces(c) |-> "TokenUnrecognized"]

\* `if a { b`: parsed with no error to the if-expression whose block holds b
C22_Witness ==
    /\ input = Spaced(<<kw_if, <<"a">>, <<"{">>, <<"b">>>>)
    /\ pc = "done"
    /\ errors = <<>>
    /\ program = Program(<<Stmt(IfExpression(Id(<<"a">>), BlockStatement(<<Stmt(Id(<<"b">>))>>), None))>>)

\* the call of add with the arguments of a case, each whole and in order: what
\* the form with commas parses to
SepCall(c) ==
    Program(<<Stmt(CallExpression(Id(<<"a", "d", "d">>),
                                  [i \in 1..Len(c.as) |-> SepArgNode(c.as[i])]))>>)

\* an argument after the first begins with `-` or `(`: without a comma before
\* it, it continues the argument before it
Continues(c) == \E i \in 2..Len(c.as) : Head(c.as[i]) \in {"-", "("}

(***************************************************************************)
(* C23, as stated.  Commas between the arguments of a call are optional:   *)
(* a call whose arguments are separated by no comma, or that has a comma   *)
(* before its first argument, parses with no error to the CallExpression   *)
(* of the form with commas.  Refuted: `add(1 -b)` is a call with the one   *)
(* argument (1 - b), where `add(1, -b)` has two.                           *)
(***************************************************************************)
C23_CommasOptional ==
    IsPrefix(<<"a", "d", "d", "(">>, input) =>
    \A c \in SepCases :
        input = c.text /\ pc = "done" => errors = <<>> /\ program = SepCall(c)

(***************************************************************************)
(* C23, amended.  A call whose form with commas parses with no error       *)
(* parses with no error to the same CallExpression when a comma stands     *)
(* before its first argument, and when its arguments are separated by no   *)
(* comma provided that no argument after the first begins with `-` or `(`. *)
(* Such an argument, with no comma before it, is taken as the continuation *)
(* of the argument before it: the call parses with no error, to fewer      *)
(* arguments.                                                              *)
(***************************************************************************)
C23_CommasOptionalUnlessContinued ==
    IsPrefix(<<"a", "d", "d", "(">>, input) =>
    \A c \in SepCases :
        input = c.text =>
            /\ ~Failed
            /\ pc = "done" =>
                  /\ errors = <<>>
                  /\ IF c.style = "none" /\ Continues(c)
                     THEN /\ Len(program.statements) = 1
                          /\ program.statements[1].expression.v.kind = "CallExpression"
                          /\ Len(program.statements[1].expression.v.arguments) < Len(c.as)
                     ELSE program = SepCall(c)

\* `add(1 2)` and `add(,1, 2)` have been parsed, to the call add(1, 2)
C23_Witness ==
    /\ input \in {SepText(<<<<"1">>, <<"2">>>>, "none"), SepText(<<<<"1">>, <<"2">>>>, "leading")}
    /\ pc = "done"
    /\ errors = <<>>
    /\ program = Program(<<Stmt(CallExpression(Id(<<"a", "d", "d">>),
                                               <<IntegerLiteral(<<1>>), IntegerLiteral(<<2>>)>>))>>)

\* the error kinds that can be recorded
ProducedErrors == ParserErrors \ {"BooleanParsingFailed"}

\* the boolean a word denotes
BooleanOf(w) == Boolean(w = kw_true)

(***************************************************************************)
(* C24.  BooleanParsingFailed is never produced: no error list, of the     *)
(* parse or of the second parse of the canonical text, ever holds it, so   *)
(* that the errors recorded are among the seven other kinds.               *)
(* parse_boolean_expression, entered on a `true` or `false` token, always  *)
(* returns Ok, leaves the cursor as it is, and yields Boolean { true }     *)
(* exactly for the token (True, "true"): `true;` parses to the statement   *)
(* true and `false;` to the statement false, with no error.                *)
(***************************************************************************)
C24_NoBooleanParsingFailed ==
    /\ \A i \in 1..Len(errors) : errors[i] \in ProducedErrors
    /\ \A i \in 1..Len(reparsed.errors) : reparsed.errors[i] \in ProducedErrors
    /\ Loaded /\ curr_token.t \in {"True", "False"} =>
          /\ parse_prefix_position(Cursor) = parse_boolean_expression(Cursor)
          /\ parse_boolean_expression(Cursor) =
                Ok(Cursor, Boolean(curr_token = Token_new("True", kw_true)))
    /\ \A w \in BooleanWords, t \in Terminators :
          input = w \o t =>
              /\ ~Failed
              /\ pc = "done" => errors = <<>> /\ program = Program(<<Stmt(BooleanOf(w))>>)

\* `false;` has been parsed, to the statement false
C24_Witness ==
    /\ input = kw_false \o <<";">>
    /\ pc = "done"
    /\ errors = <<>>
    /\ program = Program(<<Stmt(Boolean(FALSE))>>)

=============================================================================
